---- MODULE Spec2Model ----
(***************************************************************************)
(* Research paper analyzer: the single-paper page (Evaluation.py), the     *)
(* comparison page (pages/Research Paper Comparison.py), the prompt        *)
(* builders of ResearchAnalyzer and the PaperAnalysis record with its      *)
(* markdown renderer.                                                      *)
(*                                                                         *)
(* Strings are sequences of tokens.  A character of a paper's text is a    *)
(* one-character token; a literal of the source that no code inspects is   *)
(* one token; the literal "ERROR", which the pages test with startswith,   *)
(* is spelled character by character.                                      *)
(*                                                                         *)
(* One run of a page script is one step: Streamlit runs the whole script   *)
(* on every widget event, with at most one widget event per run.           *)
(***************************************************************************)
EXTENDS Integers, Sequences, FiniteSets, TLC

VARIABLES
  page,           \* the page of the multipage app the session shows
  session_state,  \* st.session_state: a function from the keys present to values
  uploaded_file,  \* value of the single-paper page's file_uploader widget
  clock,          \* time.time(), counted in clicks of the reset button
  lastRun,        \* what the latest script run did (calls made, notices shown)
  texts,          \* prompt builders: the argument list
  prompt,         \* prompt builders: the instruction handed to the model
  kwargs,         \* record model: the constructor arguments supplied
  record,         \* record model: the constructed PaperAnalysis (or TypeError)
  md              \* record model: the rendered markdown

vars == <<page, session_state, uploaded_file, clock, lastRun,
          texts, prompt, kwargs, record, md>>

pageVars == <<page, session_state, uploaded_file, clock, lastRun>>
promptVars == <<texts, prompt>>
recordVars == <<kwargs, record, md>>

(***************************************************************************)
(* Bounds of the model.                                                    *)
(***************************************************************************)
MaxResets == 1
MaxChat == 1
MaxUpload == 6
MaxBad == 1

(***************************************************************************)
(* Program constants.                                                      *)
(***************************************************************************)
MinPdfs == 2
MaxPdfs == 5
CompareLimit == 4000
AnalyzeLimit == 8000

(***************************************************************************)
(* String helpers.                                                         *)
(***************************************************************************)
Min(a, b) == IF a < b THEN a ELSE b

\* s[:n]
Take(s, n) == SubSeq(s, 1, Min(Len(s), n))

\* s.startswith(p)
StartsWith(s, p) == Len(s) >= Len(p) /\ SubSeq(s, 1, Len(p)) = p

RECURSIVE Concat(_)
\* "".join(list)
Concat(list) == IF list = <<>> THEN <<>> ELSE Head(list) \o Concat(Tail(list))

ERROR == <<"E", "R", "R", "O", "R">>

(***************************************************************************)
(* session_state as a dictionary.                                          *)
(***************************************************************************)
Has(ss, key) == key \in DOMAIN ss
Put(ss, key, val) == [k \in DOMAIN ss \cup {key} |-> IF k = key THEN val ELSE ss[k]]
PopAll(ss, keys) == [k \in DOMAIN ss \ keys |-> ss[k]]

\* Keys are token sequences: "pdf_text", "pdf_text1" = "pdf_text" + "1", ...
K_pdf_text == <<"pdf_text">>
K_analysis == <<"analysis">>
K_chat_history == <<"chat_history">>
K_uploader_key == <<"uploader_key">>
K_comparison == <<"comparison">>
K_pdf_text_i(i) == <<"pdf_text", ToString(i)>>

(***************************************************************************)
(* PDF files.  A file is its pages' extractable text, or a parse that      *)
(* raises with a message.                                                  *)
(***************************************************************************)
NoFile == [name |-> "None", pages |-> <<>>, raises |-> FALSE, msg |-> <<>>]
PdfA == [name |-> "a.pdf", pages |-> << <<"a", "b">>, <<>>, <<"c">> >>,
         raises |-> FALSE, msg |-> <<>>]
PdfB == [name |-> "b.pdf", pages |-> << <<"d">> >>, raises |-> FALSE, msg |-> <<>>]
PdfScanned == [name |-> "scanned.pdf", pages |-> << <<>>, <<>> >>,
               raises |-> FALSE, msg |-> <<>>]
PdfCorrupt == [name |-> "corrupt.pdf", pages |-> <<>>, raises |-> TRUE,
               msg |-> <<"EOF marker not found">>]
PdfErrata == [name |-> "errata.pdf", pages |-> << <<"E", "R", "R", "O", "R", "S">> >>,
              raises |-> FALSE, msg |-> <<>>]

Pdfs == {PdfA, PdfB, PdfScanned, PdfCorrupt, PdfErrata}

\* the empty text returned as it is
extract_text_from_pdf_NoEmptyCheck(pdf_file) ==
  IF pdf_file.raises
  THEN ERROR \o <<":", " ">> \o pdf_file.msg
  ELSE Concat(SelectSeq(pdf_file.pages, LAMBDA p : p # <<>>))

\* ResearchAnalyzer.extract_text_from_pdf
extract_text_from_pdf(pdf_file) ==
  IF pdf_file.raises
  THEN ERROR \o <<":", " ">> \o pdf_file.msg
  ELSE LET text == Concat(SelectSeq(pdf_file.pages, LAMBDA p : p # <<>>))
       IN  IF text # <<>> THEN text
           ELSE ERROR \o <<":", " ", "No extractable text found in PDF.">>

(***************************************************************************)
(* The external generative model: a call returns a reply to its prompt or  *)
(* raises.  Which of the two is the environment's choice.                  *)
(***************************************************************************)
ModelOutcomes == {"ok", "raise"}

\* model.generate_content(prompt).text
generate_content(p) == <<"reply(">> \o p \o <<")">>

AnalyzePreamble ==
  "You are an expert in summarizing and analyzing research papers. ... **Paper text (truncated for analysis):**\n"

\* a slice one character too long
TruncateForAnalyze_OffByOne(text) == Take(text, AnalyzeLimit + 1)

\* text[:8000]
TruncateForAnalyze(text) == Take(text, AnalyzeLimit)

\* Evaluation.py, the f-string of analyze_paper
analyze_prompt(text) == <<AnalyzePreamble>> \o TruncateForAnalyze(text) \o <<"\n">>

\* ResearchAnalyzer.analyze_paper
analyze_paper(text, outcome) ==
  IF outcome = "ok" THEN generate_content(analyze_prompt(text))
  ELSE <<"AI Analysis Error: ", "model unavailable">>

ComparePreamble ==
  "You are an expert in comparing and analyzing research papers. ... future research directions.\n\n"

CompareClosing ==
  "Provide your analysis in a structured, detailed, and easy-to-understand format."

\* the whole text, not a slice of it
TruncateForCompare_Whole(text) == text

\* text[:4000]
TruncateForCompare(text) == Take(text, CompareLimit)

\* the loop of compare_papers, for the texts from index i on
RECURSIVE compare_blocks(_, _)
compare_blocks(list, i) ==
  IF list = <<>> THEN <<>>
  ELSE <<"Paper ", ToString(i), " (truncated):\n">> \o TruncateForCompare(Head(list))
         \o <<"\n\n">> \o compare_blocks(Tail(list), i + 1)

\* the prompt compare_papers builds
compare_prompt(list) == <<ComparePreamble>> \o compare_blocks(list, 1) \o <<CompareClosing>>

\* ResearchAnalyzer.compare_papers
compare_papers(list, outcome) ==
  IF outcome = "ok" THEN generate_content(compare_prompt(list))
  ELSE <<"Comparison Error: ", "model unavailable">>

\* Evaluation.py, the f-string of the chat form
chat_prompt(analysis, user_question) ==
  <<"You are a knowledgeable research assistant ... Context:\n">> \o analysis
    \o <<"\nQuestion:\n">> \o user_question \o <<"\n">>

\* the try/except around the chat call
chat_answer(analysis, user_question, outcome) ==
  IF outcome = "ok" THEN generate_content(chat_prompt(analysis, user_question))
  ELSE <<"Error generating answer: ", "model unavailable">>

(***************************************************************************)
(* What a script run did.                                                  *)
(***************************************************************************)
Call(fn, p) == [fn |-> fn, prompt |-> p]

NoRun(pg) ==
  [page |-> pg, outcome |-> "ok", notices |-> {}, nfiles |-> 0, extractCalls |-> 0,
   failed |-> 0, ntexts |-> 0, calls |-> <<>>, displayed |-> FALSE, wrote |-> <<>>]

N_extract_failed == <<"Failed to extract text from the PDF. Please try another file.">>
N_extract_ok == <<"Text extracted successfully!">>
N_count == <<"Please upload between 2 and 5 PDFs.">>
N_failed_i(i) == <<"Failed to extract text from PDF ", ToString(i), ". Please try another file.">>
N_ok_i(i) == <<"PDF ", ToString(i), " text extracted successfully!">>

(***************************************************************************)
(* Evaluation.py, lines 154-235: one run of the single-paper page with the *)
(* file widget holding `file`, at most one of the buttons clicked, and the *)
(* chat form submitted with `question` (<<>>: not submitted, or empty).    *)
(* mA and mC are the outcomes of the model calls, if the run makes them.   *)
(* The result is the session state and the run's record; run.wrote is     *)
(* <<text>> when the run wrote text to analysis_report.md.                 *)
(***************************************************************************)
EvaluationScript(ss, file, download, clear, question, mA, mC) ==
  IF file = NoFile THEN [ss |-> ss, run |-> NoRun("Evaluation")]
  ELSE
  LET \* lines 157-165
      doExtract == ~Has(ss, K_pdf_text)
      pdf_text == extract_text_from_pdf(file)
      extractFailed == doExtract /\ StartsWith(pdf_text, ERROR)
      s1 == IF doExtract /\ ~extractFailed THEN Put(ss, K_pdf_text, pdf_text) ELSE ss
      \* lines 167-171
      doAnalyze == ~Has(s1, K_analysis) /\ Has(s1, K_pdf_text)
      s2 == IF doAnalyze
            THEN Put(s1, K_analysis, analyze_paper(s1[K_pdf_text], mA))
            ELSE s1
      analyzeCalls == IF doAnalyze
                      THEN <<Call("analyze_paper", analyze_prompt(s1[K_pdf_text]))>>
                      ELSE <<>>
      \* line 178: st.session_state.analysis raises AttributeError when absent
      raised == ~Has(s2, K_analysis)
      \* lines 179-182
      wrote == IF download THEN <<s2[K_analysis]>> ELSE <<>>
      \* lines 188-189
      s3 == IF clear THEN Put(s2, K_chat_history, <<>>) ELSE s2
      \* lines 195-217
      doChat == question # <<>>
      answer == chat_answer(s3[K_analysis], question, mC)
      history == IF Has(s3, K_chat_history) THEN s3[K_chat_history] ELSE <<>>
      s4 == IF doChat
            THEN Put(s3, K_chat_history,
                     history \o <<[role |-> "user", content |-> question],
                                  [role |-> "bot", content |-> answer]>>)
            ELSE s3
      chatCalls == IF doChat
                   THEN <<Call("chat", chat_prompt(s3[K_analysis], question))>>
                   ELSE <<>>
      notices == IF doExtract
                 THEN (IF extractFailed THEN {N_extract_failed} ELSE {N_extract_ok})
                 ELSE {}
      base == [page |-> "Evaluation", outcome |-> "ok", notices |-> notices, nfiles |-> 1,
               extractCalls |-> IF doExtract THEN 1 ELSE 0,
               failed |-> IF extractFailed THEN 1 ELSE 0,
               ntexts |-> 0, calls |-> analyzeCalls, displayed |-> FALSE,
               wrote |-> <<>>]
  IN  IF raised
      THEN [ss |-> s2, run |-> [base EXCEPT !.outcome = "AttributeError"]]
      ELSE [ss |-> s4,
            run |-> [base EXCEPT !.calls = analyzeCalls \o chatCalls,
                                 !.displayed = TRUE,
                                 !.wrote = wrote]]

(***************************************************************************)
(* Research Paper Comparison.py, lines 61-112: one run of the comparison   *)
(* page with the reset button clicked or not, time.time() = now, the file  *)
(* widget of the current uploader key holding pdf_files, and mC the        *)
(* outcome of the model call, if the run makes it.                         *)
(***************************************************************************)
\* the lower bound forgotten
CountOk_NoLowerBound(n) == n <= MaxPdfs

\* line 92
CountOk(n) == MinPdfs <= n /\ n <= MaxPdfs

\* the comparison run on whatever was extracted
AllExtracted_Any(list, pdf_files) == Len(list) > 0

\* line 108
AllExtracted(list, pdf_files) == Len(list) = Len(pdf_files)

\* line 76
ClearedByReset(key) == StartsWith(key, K_pdf_text) \/ key = K_comparison

\* line 73: f"uploader_{time.time()}"
NewUploaderKey(now) == <<"uploader_", ToString(now), ".0">>

ComparisonScript(ss, reset, now, pdf_files, mC) ==
  LET \* lines 64-65
      s0 == IF ~Has(ss, K_uploader_key)
            THEN Put(ss, K_uploader_key, <<"uploader_", "1">>)
            ELSE ss
      \* lines 71-79
      s1 == IF reset
            THEN PopAll(Put(s0, K_uploader_key, NewUploaderKey(now)),
                        {k \in DOMAIN s0 : ClearedByReset(k)})
            ELSE s0
      n == Len(pdf_files)
      countOk == CountOk(n)
      \* lines 95-106
      extracted == [i \in 1..n |-> extract_text_from_pdf(pdf_files[i])]
      okIdx == {i \in 1..n : ~StartsWith(extracted[i], ERROR)}
      list == SelectSeq(extracted, LAMBDA t : ~StartsWith(t, ERROR))
      s2 == [k \in DOMAIN s1 \cup {K_pdf_text_i(i) : i \in okIdx} |->
               IF \E i \in okIdx : k = K_pdf_text_i(i)
               THEN extracted[CHOOSE i \in okIdx : k = K_pdf_text_i(i)]
               ELSE s1[k]]
      \* lines 108-112
      doCompare == AllExtracted(list, pdf_files)
      s3 == IF doCompare THEN Put(s2, K_comparison, compare_papers(list, mC)) ELSE s2
      base == NoRun("Comparison")
  IN  IF n = 0 THEN [ss |-> s1, run |-> base]
      ELSE IF ~countOk
      THEN [ss |-> s1, run |-> [base EXCEPT !.notices = {N_count}, !.nfiles = n]]
      ELSE [ss |-> s3,
            run |-> [base EXCEPT
                       !.notices = {N_ok_i(i) : i \in okIdx}
                                     \cup {N_failed_i(i) : i \in (1..n) \ okIdx},
                       !.nfiles = n,
                       !.extractCalls = n,
                       !.failed = n - Cardinality(okIdx),
                       !.ntexts = Len(list),
                       !.calls = IF doCompare
                                 THEN <<Call("compare_papers", compare_prompt(list))>>
                                 ELSE <<>>,
                       !.displayed = doCompare]]

NoPrompt == [fn |-> "none", text |-> <<>>]

(***************************************************************************)
(* The dataclasses of Evaluation.py.  A str is a token sequence, a list a  *)
(* sequence of them, a dict a sequence of <<key, value>> pairs in          *)
(* insertion order, an Optional[str] the sequence <<>> (None) or <<s>>.    *)
(* A number is an integer; confidence_score is counted in hundredths.      *)
(***************************************************************************)
None == <<>>
Some(str) == <<str>>

\* x or default, for an Optional[str]: None and "" are falsy
OrElse(x, default) == IF x = None \/ x[1] = <<>> THEN default ELSE x[1]

\* techniques declared without a default
MethodologyDefaults_TechniquesRequired ==
  [core_approach |-> <<"Not specified">>, novelty |-> None]

\* class Dataset: the fields with a default
DatasetDefaults ==
  [source |-> <<"Not specified">>, size |-> <<"Not specified">>,
   data_type |-> <<"Not specified">>, processing_steps |-> <<>>]

\* class Methodology: the fields with a default
MethodologyDefaults ==
  [core_approach |-> <<"Not specified">>, techniques |-> <<>>, novelty |-> None]

\* class Results: the fields with a default
ResultsDefaults == [quantitative |-> <<>>, qualitative |-> <<>>, benchmarks |-> <<>>]

\* class FutureDirections: the fields with a default
FutureDirectionsDefaults == [author_stated |-> <<>>, implied_gaps |-> <<>>]

\* class PaperAnalysis: no field has a default
PaperAnalysisDefaults == [f \in {} |-> <<>>]

DatasetFields == {"source", "size", "data_type", "processing_steps"}
MethodologyFields == {"core_approach", "techniques", "novelty"}
ResultsFields == {"quantitative", "qualitative", "benchmarks"}
FutureDirectionsFields == {"author_stated", "implied_gaps"}
PaperAnalysisFields ==
  {"title", "year", "url", "methodology", "dataset", "results", "future_directions",
   "confidence_score", "missing_sections"}

\* The __init__ a dataclass generates: a field not supplied takes its default,
\* and a field without a default that is not supplied raises TypeError.
New(fields, defaults, kw) ==
  IF fields \ DOMAIN defaults \subseteq DOMAIN kw
  THEN [state |-> "ok",
        obj |-> [f \in fields |-> IF f \in DOMAIN kw THEN kw[f] ELSE defaults[f]]]
  ELSE [state |-> "TypeError", obj |-> <<>>]

NoKwargs == [methodology |-> <<>>, dataset |-> <<>>, results |-> <<>>,
             future_directions |-> <<>>, paper |-> <<>>]
NoRecord == [state |-> "none", obj |-> <<>>]

\* PaperAnalysis(methodology=Methodology(...), dataset=Dataset(...), ...): the
\* sub-records are constructed first, and an exception of theirs propagates.
NewPaperAnalysis(kw) ==
  LET m == New(MethodologyFields, MethodologyDefaults, kw.methodology)
      d == New(DatasetFields, DatasetDefaults, kw.dataset)
      r == New(ResultsFields, ResultsDefaults, kw.results)
      f == New(FutureDirectionsFields, FutureDirectionsDefaults, kw.future_directions)
  IN  IF m.state # "ok" \/ d.state # "ok" \/ r.state # "ok" \/ f.state # "ok"
      THEN [state |-> "TypeError", obj |-> <<>>]
      ELSE New(PaperAnalysisFields, PaperAnalysisDefaults,
               [k \in DOMAIN kw.paper \cup
                        {"methodology", "dataset", "results", "future_directions"} |->
                  CASE k = "methodology" -> m.obj
                    [] k = "dataset" -> d.obj
                    [] k = "results" -> r.obj
                    [] k = "future_directions" -> f.obj
                    [] OTHER -> kw.paper[k]])

\* f"{x:.2f}" of a number of hundredths
Fmt2f(c) == <<ToString(c \div 100), ".", ToString((c % 100) \div 10), ToString(c % 10)>>

\* [f"{prefix}{x}" for x in list]
Bullets(prefix, list) == [i \in 1..Len(list) |-> <<prefix>> \o list[i]]

\* a list section without its header when the list is empty
ListSection_SkipEmpty(header, prefix, list) ==
  IF list = <<>> THEN <<>> ELSE <<header>> \o Bullets(prefix, list)

\* a header element followed by the unpacked comprehension
ListSection(header, prefix, list) == <<header>> \o Bullets(prefix, list)

\* the list md of to_markdown; a newline character is the token "\n"
MdList(self) ==
  << <<"# ">> \o self.title \o <<" (", ToString(self.year), ")">>,
     <<"**Link**: ">> \o OrElse(self.url, <<"Not found">>) \o <<"\n">>,
     <<"## Methodology">>,
     <<"* Core approach: ">> \o self.methodology.core_approach >>
  \o ListSection(<<"* Techniques:">>, "  - ", self.methodology.techniques)
  \o << <<"* Novelty: ">> \o OrElse(self.methodology.novelty, <<"Not specified">>) \o <<"\n">>,
        <<"## Dataset">>,
        <<"* Source: ">> \o self.dataset.source,
        <<"* Size/Type: ">> \o self.dataset.size \o <<" | ">> \o self.dataset.data_type >>
  \o ListSection(<<"* Processing:">>, "  - ", self.dataset.processing_steps)
  \o << <<"\n", "## Results">> >>
  \o ListSection(<<"* Quantitative:">>, "  - ",
                 [i \in 1..Len(self.results.quantitative) |->
                    self.results.quantitative[i][1] \o <<": ">>
                      \o self.results.quantitative[i][2]])
  \o ListSection(<<"* Qualitative:">>, "  - ", self.results.qualitative)
  \o ListSection(<<"* Benchmarks:">>, "  - ", self.results.benchmarks)
  \o << <<"\n", "## Future Directions">> >>
  \o ListSection(<<"* Author-stated:">>, "  - ", self.future_directions.author_stated)
  \o ListSection(<<"* Implied gaps:">>, "  - ", self.future_directions.implied_gaps)
  \o << <<"\n", "**Confidence Score**: ">> \o Fmt2f(self.confidence_score) \o <<"%", "\n">> >>
  \o ListSection(<<"## Missing Data">>, "- ", self.missing_sections)

RECURSIVE Join(_, _)
\* sep.join(list)
Join(sep, list) ==
  IF list = <<>> THEN <<>>
  ELSE IF Len(list) = 1 THEN list[1]
  ELSE list[1] \o <<sep>> \o Join(sep, Tail(list))

\* PaperAnalysis.to_markdown
to_markdown(self) == Join("\n", MdList(self))

(***************************************************************************)
(* The session: user actions on the two pages.                             *)
(***************************************************************************)
EmptyState == [k \in {} |-> <<>>]

Questions == {<<>>, <<"q">>}

\* n files of which those at the positions in bad have no extractable text
UploadList(n, bad) == [i \in 1..n |-> IF i \in bad THEN PdfScanned ELSE PdfA]

UploadLists ==
  {UploadList(n, bad) : n \in 1..MaxUpload,
                        bad \in {b \in SUBSET (1..MaxUpload) : Cardinality(b) <= MaxBad}}

\* The session starts on the single-paper page, whose first run (no file
\* uploaded) changes nothing.
Init ==
  /\ page = "Evaluation"
  /\ session_state = EmptyState
  /\ uploaded_file = NoFile
  /\ clock = 0
  /\ lastRun = NoRun("Evaluation")
  /\ texts = <<>>
  /\ prompt = NoPrompt
  /\ kwargs = NoKwargs
  /\ record = NoRecord
  /\ md = <<>>

\* The outcomes to explore for a model call a run may make: both when the run
\* can reach the call, one (unused) otherwise.
OutcomesIf(mayCall) == IF mayCall THEN ModelOutcomes ELSE {"ok"}

\* a run of Evaluation.py
RunEvaluation(file, download, clear, question) ==
  \E mA \in OutcomesIf(file # NoFile /\ ~Has(session_state, K_analysis)),
     mC \in OutcomesIf(question # <<>>) :
    LET r == EvaluationScript(session_state, file, download, clear, question, mA, mC)
    IN  /\ session_state' = r.ss
        /\ lastRun' = r.run
        /\ uploaded_file' = file
        /\ UNCHANGED <<page, clock, promptVars, recordVars>>

\* a run of Research Paper Comparison.py
RunComparison(reset, now, pdf_files) ==
  \E mC \in OutcomesIf(\A i \in 1..Len(pdf_files) :
                          ~StartsWith(extract_text_from_pdf(pdf_files[i]), ERROR)) :
    LET r == ComparisonScript(session_state, reset, now, pdf_files, mC)
    IN  /\ session_state' = r.ss
        /\ lastRun' = r.run
        /\ clock' = now
        /\ UNCHANGED <<promptVars, recordVars>>

\* The user picks, replaces or removes the file of the single-paper page.
UploadFile ==
  /\ page = "Evaluation"
  /\ \E f \in Pdfs \cup {NoFile} :
       /\ f # uploaded_file
       /\ RunEvaluation(f, FALSE, FALSE, <<>>)

\* The script runs again with nothing clicked (rerun from the menu, or the
\* click on the download link that the previous run offered).
Rerun ==
  /\ page = "Evaluation"
  /\ RunEvaluation(uploaded_file, FALSE, FALSE, <<>>)

\* The buttons and the form exist only when the latest run drew them.
WidgetsDrawn == page = "Evaluation" /\ lastRun.page = "Evaluation" /\ lastRun.displayed

ChatLen(ss) == IF Has(ss, K_chat_history) THEN Len(ss[K_chat_history]) ELSE 0

DownloadAsMarkdown ==
  /\ WidgetsDrawn
  /\ RunEvaluation(uploaded_file, TRUE, FALSE, <<>>)

ClearChat ==
  /\ WidgetsDrawn
  /\ RunEvaluation(uploaded_file, FALSE, TRUE, <<>>)

Send ==
  /\ WidgetsDrawn
  /\ ChatLen(session_state) < 2 * MaxChat
  /\ \E q \in Questions : RunEvaluation(uploaded_file, FALSE, FALSE, q)

\* Navigation: the page left loses its widgets; the page entered runs with
\* its widgets empty.
GoToComparison ==
  /\ page = "Evaluation"
  /\ page' = "Comparison"
  /\ uploaded_file' = NoFile
  /\ RunComparison(FALSE, clock, <<>>)

GoToEvaluation ==
  /\ page = "Comparison"
  /\ page' = "Evaluation"
  /\ LET r == EvaluationScript(session_state, NoFile, FALSE, FALSE, <<>>, "ok", "ok")
     IN  /\ session_state' = r.ss
          /\ lastRun' = r.run
  /\ UNCHANGED <<uploaded_file, clock, promptVars, recordVars>>

UploadPdfs ==
  /\ page = "Comparison"
  /\ \E fs \in UploadLists : RunComparison(FALSE, clock, fs)
  /\ UNCHANGED <<page, uploaded_file>>

\* The reset button: the run changes the uploader key, so the file widget it
\* draws is a new, empty one.
StartNewComparison ==
  /\ page = "Comparison"
  /\ clock < MaxResets
  /\ RunComparison(TRUE, clock + 1, <<>>)
  /\ UNCHANGED <<page, uploaded_file>>

Next ==
  \/ UploadFile
  \/ Rerun
  \/ DownloadAsMarkdown
  \/ ClearChat
  \/ Send
  \/ GoToComparison
  \/ GoToEvaluation
  \/ UploadPdfs
  \/ StartNewComparison

Spec == Init /\ [][Next]_vars

(***************************************************************************)
(* Claims about the pages, checked under Spec.                             *)
(***************************************************************************)
\* A PDF that yields no usable text: every page is empty, or the parse raises.
Unreadable(f) == f.raises \/ \A i \in 1..Len(f.pages) : f.pages[i] = <<>>

\* The number of "Paper N" labels in a comparison prompt.
PaperLabels(p) == Cardinality({i \in 1..Len(p) : p[i] = "Paper "})

\* C1: on the comparison page, a run with a non-empty upload of fewer than 2
\* or more than 5 files shows 'Please upload between 2 and 5 PDFs.', extracts
\* no text, calls neither compare_papers nor the model, and leaves the session
\* state as it was.
C1_RejectsOutsideBounds ==
  [][(/\ lastRun'.page = "Comparison"
      /\ lastRun'.nfiles > 0
      /\ ~(2 <= lastRun'.nfiles /\ lastRun'.nfiles <= 5))
       => /\ lastRun'.notices = {N_count}
          /\ lastRun'.extractCalls = 0
          /\ lastRun'.calls = <<>>
          /\ session_state' = session_state]_vars

\* C1 witness: six files were uploaded and rejected, in a session that already
\* holds a comparison.
C1_Witness ==
  /\ lastRun.page = "Comparison"
  /\ lastRun.nfiles = 6
  /\ N_count \in lastRun.notices
  /\ Has(session_state, K_comparison)

\* C2: extract_text_from_pdf returns a string beginning with "ERROR" for every
\* PDF with no extractable text or whose parse raises, and a run of the
\* single-paper page with such a file uploaded neither calls analyze_paper
\* nor stores what was extracted from it as pdf_text.
C2_UnreadableNeverAnalyzed ==
  /\ \A f \in Pdfs : Unreadable(f) => StartsWith(extract_text_from_pdf(f), ERROR)
  /\ (/\ lastRun.page = "Evaluation"
      /\ uploaded_file # NoFile
      /\ Unreadable(uploaded_file))
       => /\ \A i \in 1..Len(lastRun.calls) : lastRun.calls[i].fn # "analyze_paper"
          /\ Has(session_state, K_pdf_text)
               => session_state[K_pdf_text] # extract_text_from_pdf(uploaded_file)

\* C2 witness: a scanned PDF was uploaded, its extraction ran and failed.
C2_Witness ==
  /\ lastRun.page = "Evaluation"
  /\ uploaded_file = PdfScanned
  /\ lastRun.extractCalls = 1
  /\ lastRun.failed = 1
  /\ N_extract_failed \in lastRun.notices

\* C3: every run of the single-paper page with a file uploaded completes
\* without an unhandled error: the summary, the download and the chat prompt
\* read an analysis that is in the session state.
C3_RunsComplete ==
  (lastRun.page = "Evaluation" /\ uploaded_file # NoFile)
    => /\ lastRun.outcome = "ok"
       /\ lastRun.displayed
       /\ Has(session_state, K_analysis)

\* chat_history after a step holds everything it held before
ChatKept(before, after) ==
  Has(before, K_chat_history)
    => /\ Has(after, K_chat_history)
       /\ StartsWith(after[K_chat_history], before[K_chat_history])

\* C4: pdf_text, analysis and chat_history, once present, stay; only the
\* Clear Chat action resets chat_history, and no action, Start New Comparison
\* included, removes pdf_text or analysis.
C4_OnlyClearChatClears ==
  [][/\ Has(session_state, K_pdf_text) => Has(session_state', K_pdf_text)
     /\ Has(session_state, K_analysis) => Has(session_state', K_analysis)
     /\ ClearChat \/ ChatKept(session_state, session_state')]_vars

\* C9 as claimed: with 2..5 files uploaded of which one fails to extract, the
\* comparison proceeds and the model is called with fewer texts than files.
C9_ProceedsWithFewer ==
  (/\ lastRun.page = "Comparison"
   /\ 2 <= lastRun.nfiles /\ lastRun.nfiles <= 5
   /\ lastRun.failed >= 1)
    => /\ Len(lastRun.calls) = 1
       /\ PaperLabels(lastRun.calls[1].prompt) < lastRun.nfiles

\* C9 amended: with 2..5 files uploaded of which some fail to extract, only
\* the failed files' texts are left out of the comparison set and the
\* comparison does not proceed: compare_papers is called only when every
\* extraction succeeded, with as many texts as files, between 2 and 5.
C9_FailureStopsComparison ==
  lastRun.page = "Comparison"
    => /\ (/\ 2 <= lastRun.nfiles /\ lastRun.nfiles <= 5
           /\ lastRun.failed >= 1)
            => /\ lastRun.calls = <<>>
               /\ ~lastRun.displayed
               /\ lastRun.ntexts = lastRun.nfiles - lastRun.failed
               /\ \A i \in 1..lastRun.nfiles :
                    \/ N_failed_i(i) \in lastRun.notices
                    \/ Has(session_state, K_pdf_text_i(i))
       /\ lastRun.calls # <<>>
            => /\ Len(lastRun.calls) = 1
               /\ lastRun.failed = 0
               /\ PaperLabels(lastRun.calls[1].prompt) = lastRun.nfiles
               /\ 2 <= lastRun.nfiles /\ lastRun.nfiles <= 5

\* C9 witness: three files were uploaded, one failed to extract, and the run
\* made no model call.
C9_Witness ==
  /\ lastRun.page = "Comparison"
  /\ lastRun.nfiles = 3
  /\ lastRun.failed = 1
  /\ lastRun.ntexts = 2
  /\ lastRun.calls = <<>>

\* C10: whenever the single-paper page displays a summary, pdf_text is the
\* text extracted from the file now uploaded and analysis is what
\* analyze_paper returned for that text.
C10_SummaryOfCurrentFile ==
  (lastRun.page = "Evaluation" /\ lastRun.displayed)
    => /\ Has(session_state, K_pdf_text)
       /\ session_state[K_pdf_text] = extract_text_from_pdf(uploaded_file)
       /\ session_state[K_analysis]
            \in {analyze_paper(session_state[K_pdf_text], o) : o \in ModelOutcomes}

(***************************************************************************)
(* The prompt builders on long texts.  A list of texts is built, then      *)
(* compare_papers or analyze_paper builds its instruction from it.         *)
(***************************************************************************)
Excess == 1

Alphabet == <<"x", "y", "z">>

\* a text of len characters
Paper(len) == [i \in 1..len |-> Alphabet[((i + len) % 3) + 1]]

ComparePool == {Paper(len) : len \in {0, 3, CompareLimit, CompareLimit + Excess}}
AnalyzePool == {Paper(len) : len \in {0, 3, AnalyzeLimit, AnalyzeLimit + Excess}}

InitPrompt ==
  /\ page = "Evaluation"
  /\ session_state = EmptyState
  /\ uploaded_file = NoFile
  /\ clock = 0
  /\ lastRun = NoRun("Evaluation")
  /\ texts = <<>>
  /\ prompt = NoPrompt
  /\ kwargs = NoKwargs
  /\ record = NoRecord
  /\ md = <<>>

AppendText ==
  /\ Len(texts) < MaxPdfs
  /\ \E t \in ComparePool : texts' = Append(texts, t)
  /\ prompt' = NoPrompt
  /\ UNCHANGED <<pageVars, recordVars>>

ComparePapers ==
  /\ texts # <<>>
  /\ prompt.fn = "none"
  /\ prompt' = [fn |-> "compare_papers", text |-> compare_prompt(texts)]
  /\ UNCHANGED <<texts, pageVars, recordVars>>

AnalyzePaper ==
  /\ texts = <<>>
  /\ \E t \in AnalyzePool :
       /\ texts' = <<t>>
       /\ prompt' = [fn |-> "analyze_paper", text |-> analyze_prompt(t)]
  /\ UNCHANGED <<pageVars, recordVars>>

NextPrompt ==
  \/ AppendText
  \/ ComparePapers
  \/ AnalyzePaper

SpecPrompt == InitPrompt /\ [][NextPrompt]_vars

\* the characters of text i that the claims say are kept
Kept(list, i, limit) == Min(Len(list[i]), limit)

RECURSIVE BlockStart(_, _, _)
\* the tokens before block i: the preamble, and for each earlier block its
\* label (three tokens), its kept characters and its separator
BlockStart(list, i, limit) ==
  IF i = 1 THEN 1 ELSE BlockStart(list, i - 1, limit) + 3 + Kept(list, i - 1, limit) + 1

\* C5: for 2..5 texts, the instruction compare_papers builds is the preamble,
\* then one block per text in input order, labelled Paper 1 .. Paper n and
\* holding exactly the first min(len, 4000) characters of its text, then the
\* closing instruction.
C5_ComparePromptShape ==
  (prompt.fn = "compare_papers" /\ 2 <= Len(texts) /\ Len(texts) <= 5)
    => LET p == prompt.text
           n == Len(texts)
       IN  /\ Len(p) = BlockStart(texts, n + 1, 4000) + 1
           /\ p[1] = ComparePreamble
           /\ p[Len(p)] = CompareClosing
           /\ PaperLabels(p) = n
           /\ \A i \in 1..n :
                LET at == BlockStart(texts, i, 4000)
                    k == Kept(texts, i, 4000)
                IN  /\ SubSeq(p, at + 1, at + 3) = <<"Paper ", ToString(i), " (truncated):\n">>
                    /\ SubSeq(p, at + 4, at + 3 + k) = SubSeq(texts[i], 1, k)
                    /\ p[at + 4 + k] = "\n\n"

\* C5 witness: a prompt built from five texts, one longer than 4,000
\* characters and one shorter.
C5_Witness ==
  /\ prompt.fn = "compare_papers"
  /\ Len(texts) = 5
  /\ \E i \in 1..5 : Len(texts[i]) > 4000
  /\ \E i \in 1..5 : Len(texts[i]) < 4000 /\ Len(texts[i]) > 0

\* C6: the instruction analyze_paper builds is the preamble followed by
\* exactly the first 8,000 characters of the text (the whole text when it has
\* at most 8,000) and by nothing else of the text.
C6_AnalyzePromptShape ==
  prompt.fn = "analyze_paper"
    => LET p == prompt.text
           t == texts[1]
           k == IF Len(t) > 8000 THEN 8000 ELSE Len(t)
       IN  /\ Len(p) = 1 + k + 1
           /\ p[1] = AnalyzePreamble
           /\ SubSeq(p, 2, k + 1) = SubSeq(t, 1, k)
           /\ p[k + 2] = "\n"

\* C6 witness: a prompt built from a text longer than 8,000 characters.
C6_Witness ==
  /\ prompt.fn = "analyze_paper"
  /\ Len(texts[1]) > 8000

(***************************************************************************)
(* The record and its renderer: constructor arguments are drawn, the       *)
(* record is constructed, then rendered.                                   *)
(***************************************************************************)
MaxItems == 2

\* the arguments a caller may leave out
Suppliable ==
  {"techniques", "novelty", "processing_steps", "quantitative", "qualitative",
   "benchmarks", "author_stated", "implied_gaps", "url", "missing_sections"}

Optionals == {None, Some(<<>>), Some(<<"v">>)}

Confidences == {0, 8705, 10000}

Items(name, n) == [j \in 1..n |-> <<name, ToString(j)>>]

Restrict(f, S) == [k \in DOMAIN f \cap S |-> f[k]]

\* the arguments of a construction that supplies the fields in S, lists of n
\* items, opt for the optional scalars and conf hundredths of confidence
KwargsFor(S, n, opt, conf) ==
  [methodology |->
     Restrict([techniques |-> Items("technique", n), novelty |-> opt], S),
   dataset |-> Restrict([processing_steps |-> Items("step", n)], S),
   results |->
     Restrict([quantitative |-> [j \in 1..n |-> << <<"metric", ToString(j)>>, <<ToString(j)>> >>],
               qualitative |-> Items("observation", n),
               benchmarks |-> Items("benchmark", n)], S),
   future_directions |->
     Restrict([author_stated |-> Items("direction", n),
               implied_gaps |-> Items("gap", n)], S),
   paper |->
     Restrict([title |-> <<"T">>, year |-> 2024, confidence_score |-> conf, url |-> opt,
               missing_sections |-> Items("section", n)],
              S \cup {"title", "year", "confidence_score"})]

InitRecord ==
  /\ page = "Evaluation"
  /\ session_state = EmptyState
  /\ uploaded_file = NoFile
  /\ clock = 0
  /\ lastRun = NoRun("Evaluation")
  /\ texts = <<>>
  /\ prompt = NoPrompt
  /\ \E S \in SUBSET Suppliable, n \in 0..MaxItems, opt \in Optionals, conf \in Confidences :
       kwargs = KwargsFor(S, n, opt, conf)
  /\ record = NoRecord
  /\ md = <<>>

Construct ==
  /\ record.state = "none"
  /\ record' = NewPaperAnalysis(kwargs)
  /\ UNCHANGED <<kwargs, md, pageVars, promptVars>>

ToMarkdown ==
  /\ record.state = "ok"
  /\ md = <<>>
  /\ md' = to_markdown(record.obj)
  /\ UNCHANGED <<kwargs, record, pageVars, promptVars>>

NextRecord ==
  \/ Construct
  \/ ToMarkdown

SpecRecord == InitRecord /\ [][NextRecord]_vars

(***************************************************************************)
(* Claims about the record and its renderer, checked under SpecRecord.     *)
(***************************************************************************)
RECURSIVE SplitLines(_)
\* str.split("\n")
SplitLines(str) ==
  IF \A i \in 1..Len(str) : str[i] # "\n" THEN <<str>>
  ELSE LET k == CHOOSE i \in 1..Len(str) :
                  str[i] = "\n" /\ \A j \in 1..(i - 1) : str[j] # "\n"
       IN  <<SubSeq(str, 1, k - 1)>> \o SplitLines(SubSeq(str, k + 1, Len(str)))

\* the lines of the document that are not blank
DocLines(doc) == SelectSeq(SplitLines(doc), LAMBDA l : l # <<>>)

IsBullet(line) == line[1] \in {"  - ", "- "}

Count(lines, line) == Cardinality({i \in 1..Len(lines) : lines[i] = line})
Pos(lines, line) == CHOOSE i \in 1..Len(lines) : lines[i] = line
PosStarting(lines, token) == CHOOSE i \in 1..Len(lines) : lines[i][1] = token

\* the number of bullet lines right under line i
BulletsUnder(lines, i) ==
  CHOOSE k \in 0..(Len(lines) - i) :
    /\ \A j \in 1..k : IsBullet(lines[i + j])
    /\ i + k = Len(lines) \/ ~IsBullet(lines[i + k + 1])

\* the list fields of a record: header, bullet prefix, elements, and the
\* section the header belongs to
ListFieldsOf(self) ==
  << [header |-> <<"* Techniques:">>, prefix |-> "  - ", section |-> 1,
      items |-> self.methodology.techniques],
     [header |-> <<"* Processing:">>, prefix |-> "  - ", section |-> 2,
      items |-> self.dataset.processing_steps],
     [header |-> <<"* Qualitative:">>, prefix |-> "  - ", section |-> 3,
      items |-> self.results.qualitative],
     [header |-> <<"* Benchmarks:">>, prefix |-> "  - ", section |-> 3,
      items |-> self.results.benchmarks],
     [header |-> <<"* Author-stated:">>, prefix |-> "  - ", section |-> 4,
      items |-> self.future_directions.author_stated],
     [header |-> <<"* Implied gaps:">>, prefix |-> "  - ", section |-> 4,
      items |-> self.future_directions.implied_gaps],
     [header |-> <<"## Missing Data">>, prefix |-> "- ", section |-> 6,
      items |-> self.missing_sections] >>

\* C7: the rendered document has its sections in the order heading, link,
\* Methodology, Dataset, Results, Future Directions, confidence, Missing Data;
\* every list field's header line is there exactly once, in its section, with
\* exactly one bullet per element beneath it in list order, and none when the
\* list is empty.
C7_MarkdownShape ==
  md # <<>>
    => LET self == record.obj
           L == DocLines(md)
           fields == ListFieldsOf(self)
           \* where the sections start; the last entry closes the document
           at == << Pos(L, <<"## Methodology">>), Pos(L, <<"## Dataset">>),
                    Pos(L, <<"## Results">>), Pos(L, <<"## Future Directions">>),
                    PosStarting(L, "**Confidence Score**: "),
                    Pos(L, <<"## Missing Data">>), Len(L) + 1 >>
       IN  /\ L[1] = <<"# ">> \o self.title \o <<" (", ToString(self.year), ")">>
           /\ L[2][1] = "**Link**: "
           /\ \A h \in {<<"## Methodology">>, <<"## Dataset">>, <<"## Results">>,
                        <<"## Future Directions">>, <<"## Missing Data">>} :
                Count(L, h) = 1
           /\ Cardinality({i \in 1..Len(L) : L[i][1] = "**Confidence Score**: "}) = 1
           /\ 2 < at[1]
           /\ \A i \in 1..6 : at[i] < at[i + 1]
           /\ \A x \in 1..Len(fields) :
                LET f == fields[x]
                    h == Pos(L, f.header)
                IN  /\ Count(L, f.header) = 1
                    /\ at[f.section] <= h /\ h < at[f.section + 1]
                    /\ BulletsUnder(L, h) = Len(f.items)
                    /\ \A j \in 1..Len(f.items) : L[h + j] = <<f.prefix>> \o f.items[j]

\* C7 witness: a rendered record with an empty list field and a list field of
\* two elements.
C7_Witness ==
  /\ md # <<>>
  /\ record.obj.methodology.techniques = <<>>
  /\ record.obj.future_directions.implied_gaps = <<>>
  /\ Len(record.obj.results.qualitative) = 2

\* what the caller supplied to the constructors
Supplied ==
  DOMAIN kwargs.methodology \cup DOMAIN kwargs.dataset \cup DOMAIN kwargs.results
    \cup DOMAIN kwargs.future_directions \cup DOMAIN kwargs.paper

\* the value of a field of the constructed record
FieldOf(self, name) ==
  CASE name \in MethodologyFields -> self.methodology[name]
    [] name \in DatasetFields -> self.dataset[name]
    [] name \in ResultsFields -> self.results[name]
    [] name \in FutureDirectionsFields -> self.future_directions[name]
    [] OTHER -> self[name]

\* C8 as claimed: in a record constructed without supplying a list field, the
\* field is the empty list; without supplying the source URL or the novelty,
\* the field is the string "Not specified".
C8_DefaultsAsClaimed ==
  record.state = "ok"
    => /\ \A name \in {"techniques", "processing_steps", "qualitative", "benchmarks",
                       "author_stated", "implied_gaps", "missing_sections"} \ Supplied :
            FieldOf(record.obj, name) = <<>>
       /\ \A name \in {"url", "novelty"} \ Supplied :
            FieldOf(record.obj, name) = Some(<<"Not specified">>)

\* C8 amended: the list fields techniques, processing_steps, qualitative,
\* benchmarks, author_stated and implied_gaps default to the empty list;
\* missing_sections and url have no default, so a PaperAnalysis is
\* constructed exactly when both are supplied; novelty defaults to None, and
\* it is to_markdown that prints "Not specified" for a novelty that is None.
C8_DefaultsAmended ==
  /\ record.state # "none"
       => (record.state = "ok" <=> {"url", "missing_sections"} \subseteq Supplied)
  /\ record.state = "ok"
       => /\ \A name \in {"techniques", "processing_steps", "qualitative", "benchmarks",
                          "author_stated", "implied_gaps"} \ Supplied :
               FieldOf(record.obj, name) = <<>>
          /\ "novelty" \notin Supplied => record.obj.methodology.novelty = None
  /\ (md # <<>> /\ record.obj.methodology.novelty = None)
       => Count(DocLines(md), <<"* Novelty: ", "Not specified">>) = 1

\* C8 witness: a record constructed with no optional argument but url and
\* missing_sections, and rendered.
C8_Witness ==
  /\ md # <<>>
  /\ Supplied = {"title", "year", "confidence_score", "url", "missing_sections"}

====
